---- MODULE Spec2Model ----
(***************************************************************************)
(* Multiway bubble-sort state graphs and the causal graph of swap events. *)
(* The model covers the four programs of the repository:                   *)
(*   bubble.py, bubble2.py, bubbleWithDuplicates.py,                       *)
(*   causalWithDuplicates.py.                                              *)
(* A behaviour is one run of one program on one command line: the states   *)
(* are enumerated, the graph is built, the super-source is attached        *)
(* (bubble2), and the summary is computed.  Each call main() makes is one  *)
(* action; a loop of the code is modelled by the sequence of calls it      *)
(* makes, in the order it makes them.                                      *)
(***************************************************************************)
EXTENDS Integers, Sequences, FiniteSets, TLC

\* ---------------------------------------------------------------- bounds
\* Largest -n given on the command line.
MaxN == 3
\* Longest --values list.
MaxLen == 4
\* Values of a --values list are drawn from 1..MaxVal.
MaxVal == 3
\* The ordering specification reorders state lists of at most this length.
MaxOrdStates == 6
\* Longest --values string (in characters) of the parsing specification.
MaxArgLen == 4

VARIABLES
    prog,       \* which of the four programs runs
    mode,       \* "n" (-n given) or "values" (--values given)
    n,          \* args.n (0 when --values is given)
    values,     \* the parsed value tuple (<<>> when -n is given)
    no_super,   \* args.no_super (bubble2 only)
    pc,         \* position of the run
    states,     \* the enumerated state list
    G,          \* the multiway graph: [nodes: insertion-ordered list, edges: set of pairs]
    stats,      \* the reported summary
    events,     \* build_causal_graph: list of event records
    out_events_from_state,  \* dict: state -> list of event ids
    in_events_to_state,     \* dict: state -> list of event ids
    next_event_id,
    CG,         \* the causal graph: [nodes, attrs, edges]
    prev,       \* ordering specification: the result of the first build
    argv,       \* args.values, the string as typed: a list of characters
    graphml,    \* nx.write_graphml has written the output file
    pos,        \* the layout drawn for --png: node -> (x, y)
    cur,        \* walk specification: the state the walk is at
    steps,      \* walk specification: the transitions taken so far
    sweep_found \* sweep specification: some input gave the events looked for

input_vars == <<prog, mode, n, values, no_super>>
causal_vars == <<events, out_events_from_state, in_events_to_state, next_event_id, CG>>
run_vars == <<argv, graphml, pos>>
walk_vars == <<cur, steps, sweep_found>>
vars == <<prog, mode, n, values, no_super, pc, states, G, stats,
          events, out_events_from_state, in_events_to_state, next_event_id, CG, prev,
          argv, graphml, pos, cur, steps, sweep_found>>

\* ------------------------------------------------------- python values
\* A graph node is a python object: a tuple of ints (a state) or the string
\* SUPER.  A tuple never equals a string.
St(t) == [kind |-> "tuple", val |-> t]

SUPER == [kind |-> "str", val |-> "__START__"]

Range(s) == {s[i] : i \in DOMAIN s}

Min(S) == CHOOSE x \in S : \A y \in S : x <= y

\* The concatenation of a list of lists.
RECURSIVE flatten(_)
flatten(ss) ==
    IF Len(ss) = 0 THEN <<>>
    ELSE IF Len(ss) = 1 THEN ss[1]
    ELSE LET h == Len(ss) \div 2
         IN  flatten(SubSeq(ss, 1, h)) \o flatten(SubSeq(ss, h + 1, Len(ss)))

\* The elements of s that are not in the set seen, each at its first place.
first_new(s, seen) ==
    LET cand == SelectSeq([i \in 1..Len(s) |-> i], LAMBDA i : s[i] \notin seen)
        keep == SelectSeq(cand, LAMBDA i : \A j \in 1..(i - 1) : s[j] # s[i])
    IN  [r \in 1..Len(keep) |-> s[keep[r]]]

\* Python's tuple comparison a < b: the first differing element decides, a
\* proper prefix is smaller.
tuple_less(a, b) ==
    \E i \in 1..(Len(a) + 1) :
        /\ i <= Len(b)
        /\ \A j \in 1..(i - 1) : a[j] = b[j]
        /\ (i = Len(a) + 1 \/ a[i] < b[i])

int_less(a, b) == a < b

\* sorted() on a list of tuples.
sorted(s) == SortSeq(s, tuple_less)

\* sorted() on a list of ints.
sorted_int(s) == SortSeq(s, int_less)

\* Iteration over set(s): python leaves the order open.  The model takes the
\* distinct elements last occurrence first, so that no result leans on the
\* order of s.
set_iter(s) ==
    LET d == first_new(s, {})
    IN  [r \in 1..Len(d) |-> d[Len(d) + 1 - r]]

\* --------------------------------------------------------- python str
\* A str is a list of characters, a character a string of length 1; "->"
\* stands for the one character U+2192 of the event labels.
Digits == <<"0", "1", "2", "3", "4", "5", "6", "7", "8", "9">>

is_digit(c) == c \in Range(Digits)

digit_value(c) == CHOOSE d \in 0..9 : Digits[d + 1] = c

\* The code point of a character.
ord(c) ==
    CASE c = " " -> 32
      [] c = "," -> 44
      [] is_digit(c) -> 48 + digit_value(c)
      [] c = "@" -> 64
      [] c = "x" -> 120
      [] c = "->" -> 8594

\* a < b on str: the first differing character decides by code point, a proper
\* prefix is smaller.
str_less(a, b) ==
    \E i \in 1..(Len(a) + 1) :
        /\ i <= Len(b)
        /\ \A j \in 1..(i - 1) : a[j] = b[j]
        /\ (i = Len(a) + 1 \/ ord(a[i]) < ord(b[i]))

\* str(k) for an int k >= 0
RECURSIVE str(_)
str(k) ==
    IF k < 10 THEN <<Digits[k + 1]>>
    ELSE str(k \div 10) \o <<Digits[(k % 10) + 1]>>

\* sep.join(parts)
join(sep, parts) ==
    flatten([i \in 1..Len(parts) |-> IF i = 1 THEN parts[i] ELSE sep \o parts[i]])

\* ''.join(map(str, t)) and ",".join(map(str, t))
concat_str(t) == join(<<>>, [i \in 1..Len(t) |-> str(t[i])])

comma_str(t) == join(<<",">>, [i \in 1..Len(t) |-> str(t[i])])

\* s.split(","): the pieces between the commas; one piece more than commas.
split(s) ==
    LET cuts == SelectSeq([i \in 1..Len(s) |-> i], LAMBDA i : s[i] = ",")
        ends == <<0>> \o cuts \o <<Len(s) + 1>>
    IN  [k \in 1..(Len(cuts) + 1) |-> SubSeq(s, ends[k] + 1, ends[k + 1] - 1)]

\* x.strip(): the whitespace at both ends removed.
strip(x) ==
    LET ink == {i \in 1..Len(x) : x[i] # " "}
    IN  IF ink = {} THEN <<>>
        ELSE SubSeq(x, Min(ink), CHOOSE i \in ink : \A j \in ink : j <= i)

\* int(x) returns: x is, between whitespace, a non-empty run of digits (no
\* sign and no underscore is among the characters modelled).
int_accepts(x) == strip(x) # <<>> /\ \A i \in 1..Len(strip(x)) : is_digit(strip(x)[i])

\* The value int(x) returns.
RECURSIVE int_digits(_)
int_digits(d) ==
    IF d = <<>> THEN 0
    ELSE 10 * int_digits(SubSeq(d, 1, Len(d) - 1)) + digit_value(d[Len(d)])

int(x) == int_digits(strip(x))

\* ------------------------------------------------------- pure functions
inversions(t) ==
    Cardinality({ij \in (1..Len(t)) \X (1..Len(t)) : ij[1] < ij[2] /\ t[ij[1]] > t[ij[2]]})

\* q[i], q[i+1] = q[i+1], q[i]   (i is 1-based here)
swap(t, i) == [t EXCEPT ![i] = t[i + 1], ![i + 1] = t[i]]

\* The 0-based indices range(len(t)-1), in order.
index_range(t) == [j \in 1..(IF Len(t) = 0 THEN 0 ELSE Len(t) - 1) |-> j - 1]

\* Mutations of the transition generator: ">=" for ">", "<" for ">",
\* range(len(t)-2), and an assignment in place of the exchange.
bubble_neighbors_nonstrict(t) ==
    LET idx == SelectSeq(index_range(t), LAMBDA i : t[i + 1] >= t[i + 2])
    IN  [j \in 1..Len(idx) |-> swap(t, idx[j] + 1)]

bubble_neighbors_inverted(t) ==
    LET idx == SelectSeq(index_range(t), LAMBDA i : t[i + 1] < t[i + 2])
    IN  [j \in 1..Len(idx) |-> swap(t, idx[j] + 1)]

bubble_neighbors_short(t) ==
    LET idx == SelectSeq(index_range(t), LAMBDA i : i + 2 < Len(t) /\ t[i + 1] > t[i + 2])
    IN  [j \in 1..Len(idx) |-> swap(t, idx[j] + 1)]

bubble_neighbors_halfswap(t) ==
    LET idx == SelectSeq(index_range(t), LAMBDA i : t[i + 1] > t[i + 2])
    IN  [j \in 1..Len(idx) |-> [t EXCEPT ![idx[j] + 1] = t[idx[j] + 2]]]

\* bubble_neighbors(t): the successors yielded, in order of the swap index.
bubble_neighbors(t) ==
    LET idx == SelectSeq(index_range(t), LAMBDA i : t[i + 1] > t[i + 2])
    IN  [j \in 1..Len(idx) |-> swap(t, idx[j] + 1)]

\* Mutation: ">=" for ">" in the generator of the causal graph only.
bubble_neighbors_with_index_nonstrict(t) ==
    LET idx == SelectSeq(index_range(t), LAMBDA i : t[i + 1] >= t[i + 2])
    IN  [j \in 1..Len(idx) |-> <<swap(t, idx[j] + 1), idx[j]>>]

\* Mutation: the index of the right element of the pair is reported.
bubble_neighbors_with_index_right(t) ==
    LET idx == SelectSeq(index_range(t), LAMBDA i : t[i + 1] > t[i + 2])
    IN  [j \in 1..Len(idx) |-> <<swap(t, idx[j] + 1), idx[j] + 1>>]

\* bubble_neighbors_with_index(t): the (successor, swap index) pairs yielded.
bubble_neighbors_with_index(t) ==
    LET idx == SelectSeq(index_range(t), LAMBDA i : t[i + 1] > t[i + 2])
    IN  [j \in 1..Len(idx) |-> <<swap(t, idx[j] + 1), idx[j]>>]

\* itertools.permutations over index positions: index tuples in lexicographic
\* order of positions.
RECURSIVE index_permutations(_)
index_permutations(S) ==
    IF S = {} THEN << <<>> >>
    ELSE LET RECURSIVE from(_)
             from(T) ==
                 IF T = {} THEN <<>>
                 ELSE LET i == Min(T)
                          sub == index_permutations(S \ {i})
                      IN  [j \in 1..Len(sub) |-> <<i>> \o sub[j]] \o from(T \ {i})
         IN  from(S)

\* itertools.permutations(values): one tuple per index permutation, equal
\* values are not merged.
permutations(vs) ==
    LET ip == index_permutations(1..Len(vs))
    IN  [j \in 1..Len(ip) |-> [i \in 1..Len(vs) |-> vs[ip[j][i]]]]

\* range(1, n+1)
range1(m) == [i \in 1..(IF m < 0 THEN 0 ELSE m) |-> i]

states_from_n(m) == permutations(range1(m))

\* Mutation: the set() is left out.
states_from_values_nodedupe(vs) == sorted(permutations(vs))

\* sorted(set(permutations(values)))
states_from_values(vs) == sorted(set_iter(permutations(vs)))

\* Mutation: the set() is left out.
unique_permutations_nodedupe(vs) == sorted(permutations(vs))

\* unique_permutations is the same expression in bubbleWithDuplicates.py and
\* causalWithDuplicates.py.
unique_permutations(vs) == sorted(set_iter(permutations(vs)))

\* ------------------------------------------------------ graph (networkx)
EmptyGraph == [nodes |-> <<>>, edges |-> {}]

\* G.add_nodes_from(s): a node already present keeps its place.
add_nodes_from(g, s) ==
    [g EXCEPT !.nodes = @ \o first_new(s, Range(g.nodes))]

\* G.add_node(u)
add_node(g, u) == add_nodes_from(g, <<u>>)

\* The calls G.add_edge(c[1], c[2]) for c in calls, in order: each adds the
\* end points that are not nodes yet, u before v, and the edge.
add_edges_from(g, calls) ==
    LET ends == [i \in 1..(2 * Len(calls)) |-> calls[(i + 1) \div 2][2 - (i % 2)]]
    IN  [add_nodes_from(g, ends) EXCEPT !.edges = @ \cup Range(calls)]

node_set(g) == Range(g.nodes)

successors(g, u) == {e[2] : e \in {e \in g.edges : e[1] = u}}

out_degree(g, u) == Cardinality({e \in g.edges : e[1] = u})

\* Mutation: the edges that leave u are counted.
in_degree_outgoing(g, u) == Cardinality({e \in g.edges : e[1] = u})

in_degree(g, u) == Cardinality({e \in g.edges : e[2] = u})

\* The nodes reachable from a node of S by zero or more edges.
RECURSIVE closure(_, _)
closure(g, S) ==
    LET T == S \cup {e[2] : e \in {e \in g.edges : e[1] \in S}}
    IN  IF T = S THEN S ELSE closure(g, T)

descendants(g, u) == closure(g, successors(g, u))

\* The nodes without incoming edge, removed again and again: what is left in
\* the end lies on a cycle or behind one.
RECURSIVE peel(_, _)
peel(E, S) ==
    LET live == {e \in E : e[1] \in S /\ e[2] \in S}
        T == {u \in S : \E e \in live : e[2] = u}
    IN  IF T = S THEN S ELSE peel(live, T)

\* nx.is_directed_acyclic_graph(G)
is_directed_acyclic_graph(g) == peel(g.edges, node_set(g)) = {}

\* ------------------------------------------------------------- inputs
Progs == {"bubble", "bubble2", "bubbleWithDuplicates", "causalWithDuplicates"}

\* Tuples of 1..MaxVal of length lo..MaxLen.
ValueLists(lo) == UNION {[1..len -> 1..MaxVal] : len \in lo..MaxLen}

\* parse_values drops empty tokens, so it can return the empty tuple; the
\* inline parse of bubble.py and bubble2.py yields one value per token.
parsed_values(p) ==
    IF p \in {"bubbleWithDuplicates", "causalWithDuplicates"}
    THEN ValueLists(0) ELSE ValueLists(1)

NoStats == [computed |-> FALSE, is_dag |-> FALSE, sinks |-> <<>>, sources |-> <<>>,
            nodes |-> 0, edges |-> 0, max_inv |-> 0, sorted_state |-> <<>>,
            sorted_present |-> FALSE, sorted_is_sink |-> FALSE]

EmptyDict == [x \in {} |-> <<>>]

EmptyCausal == [nodes |-> <<>>, attrs |-> EmptyDict, edges |-> {}]

NoPrev == [set |-> FALSE, events |-> {}, edges |-> {}]

Init ==
    /\ prog \in Progs
    /\ mode \in (IF prog \in {"bubble", "bubble2"} THEN {"n", "values"} ELSE {"values"})
    /\ n \in (IF mode = "n" THEN 0..MaxN ELSE {0})
    /\ values \in (IF mode = "values" THEN parsed_values(prog) ELSE {<<>>})
    /\ no_super \in (IF prog = "bubble2" THEN BOOLEAN ELSE {FALSE})
    /\ pc = "start"
    /\ states = <<>>
    /\ G = EmptyGraph
    /\ stats = NoStats
    /\ events = <<>>
    /\ out_events_from_state = EmptyDict
    /\ in_events_to_state = EmptyDict
    /\ next_event_id = 0
    /\ CG = EmptyCausal
    /\ prev = NoPrev
    /\ argv = (IF mode = "values" THEN comma_str(values) ELSE <<>>)
    /\ graphml = FALSE
    /\ pos = EmptyDict
    /\ cur = <<>>
    /\ steps = 0
    /\ sweep_found = FALSE

\* ------------------------------------------------------------- actions
\* main(): the state enumeration of the selected mode.
Enumerate ==
    /\ pc = "start"
    /\ states' = (IF mode = "n" THEN states_from_n(n)
                  ELSE IF prog \in {"bubble", "bubble2"} THEN states_from_values(values)
                  ELSE unique_permutations(values))
    /\ pc' = (IF prog = "causalWithDuplicates" THEN "events" ELSE "add_nodes")
    /\ UNCHANGED <<input_vars, G, stats, causal_vars, prev, run_vars, walk_vars>>

state_nodes(s) == [i \in 1..Len(s) |-> St(s[i])]

\* The add_edge calls of "for p in states: for q in bubble_neighbors(p)".
transition_calls(sts) ==
    flatten([i \in 1..Len(sts) |->
                LET qs == bubble_neighbors(sts[i])
                IN  [j \in 1..Len(qs) |-> <<St(sts[i]), St(qs[j])>>]])

\* multiway_bubble(states) of bubble.py and bubble2.py
multiway_bubble(sts) ==
    add_edges_from(add_nodes_from(EmptyGraph, state_nodes(sts)), transition_calls(sts))

\* build_multiway(states) of bubbleWithDuplicates.py
build_multiway(sts) ==
    add_edges_from(add_nodes_from(EmptyGraph, state_nodes(sts)), transition_calls(sts))

\* main(): G = multiway_bubble(states) / G = build_multiway(states)
BuildMultiway ==
    /\ pc = "add_nodes"
    /\ G' = (IF prog = "bubbleWithDuplicates" THEN build_multiway(states)
             ELSE multiway_bubble(states))
    /\ pc' = "built"
    /\ UNCHANGED <<input_vars, states, stats, causal_vars, prev, run_vars, walk_vars>>

\* Mutation: the edges point at the super-source.
add_super_source_reversed(g, sts) ==
    add_edges_from(add_node(g, SUPER), [i \in 1..Len(sts) |-> <<St(sts[i]), SUPER>>])

\* add_super_source(G, states)
add_super_source(g, sts) ==
    add_edges_from(add_node(g, SUPER), [i \in 1..Len(sts) |-> <<SUPER, St(sts[i])>>])

AddSuperSource ==
    /\ pc = "built"
    /\ prog = "bubble2"
    /\ ~no_super
    /\ G' = add_super_source(G, states)
    /\ pc' = "augmented"
    /\ UNCHANGED <<input_vars, states, stats, causal_vars, prev, run_vars, walk_vars>>

\* sorted_state of main(): tuple(range(1, n+1)) or tuple(sorted(values)).
sorted_state_of ==
    IF mode = "n" THEN range1(n) ELSE sorted_int(values)

\* max_inv of bubble.py's main(): n * (n - 1) // 2, or the number of pairs
\* i < j with values[i] > values[j] in the list as given.
max_inv_of ==
    IF mode = "n" THEN (n * (n - 1)) \div 2
    ELSE Cardinality({ij \in (1..Len(values)) \X (1..Len(values)) :
                         ij[1] < ij[2] /\ values[ij[1]] > values[ij[2]]})

\* main(): the summary statistics, printed before nx.write_graphml writes the
\* output file; only bubble.py reports max_inv.
compute_stats(g) ==
    LET sinks == SelectSeq(g.nodes, LAMBDA u : out_degree(g, u) = 0)
        sources == SelectSeq(g.nodes, LAMBDA u : in_degree(g, u) = 0)
        ss == St(sorted_state_of)
    IN  [computed |-> TRUE,
         is_dag |-> is_directed_acyclic_graph(g),
         sinks |-> sinks,
         sources |-> sources,
         nodes |-> Len(g.nodes),
         edges |-> Cardinality(g.edges),
         max_inv |-> (IF prog = "bubble" THEN max_inv_of ELSE 0),
         sorted_state |-> sorted_state_of,
         sorted_present |-> ss \in node_set(g),
         sorted_is_sink |-> ss \in Range(sinks)]

Stats ==
    /\ \/ pc = "augmented"
       \/ pc = "built" /\ (prog # "bubble2" \/ no_super)
    /\ stats' = compute_stats(G)
    /\ graphml' = TRUE
    /\ pc' = "done"
    /\ UNCHANGED <<input_vars, states, G, causal_vars, prev, argv, pos, walk_vars>>

\* ------------------------------------------------------- causal graph
\* d.get(key, [])
dict_get(d, key) == IF key \in DOMAIN d THEN d[key] ELSE <<>>

\* Mutation: next_event_id is never incremented.
assigned_id_stuck(j) == 0

\* next_event_id when the j-th event (j = 1, 2, ...) is created: it starts at
\* 0 and grows by one with every event.
assigned_id(j) == j - 1

\* The events list after "for p in states: for q, idx in
\* bubble_neighbors_with_index(p)".
enumerate_events(sts) ==
    LET found == flatten([i \in 1..Len(sts) |->
                     LET qs == bubble_neighbors_with_index(sts[i])
                     IN  [j \in 1..Len(qs) |->
                             [source |-> sts[i], target |-> qs[j][1],
                              swap_index |-> qs[j][2]]]])
    IN  [j \in 1..Len(found) |->
            [id |-> assigned_id(j), source |-> found[j].source,
             target |-> found[j].target, swap_index |-> found[j].swap_index]]

\* The ids of a list of events, in order.
ids_of(es) == [r \in 1..Len(es) |-> es[r].id]

\* Mutation: d[q] = [id] in place of d.setdefault(q, []).append(id).
index_by_target_overwrite(es) ==
    [q \in {e.target : e \in Range(es)} |->
        LET ids == ids_of(SelectSeq(es, LAMBDA e : e.target = q)) IN <<ids[Len(ids)]>>]

\* in_events_to_state after the loop: every target state with the ids of the
\* events that produce it, in the order they were appended.
index_by_target(es) ==
    [q \in {e.target : e \in Range(es)} |->
        ids_of(SelectSeq(es, LAMBDA e : e.target = q))]

\* out_events_from_state after the loop.
index_by_source(es) ==
    [p \in {e.source : e \in Range(es)} |->
        ids_of(SelectSeq(es, LAMBDA e : e.source = p))]

\* label = f"{''.join(map(str, e['source']))}->{''.join(map(str, e['target']))} @{e['swap_index']}"
event_label(e) ==
    concat_str(e.source) \o <<"->">> \o concat_str(e.target) \o <<" ", "@">> \o str(e.swap_index)

\* The attributes G.add_node(e["id"], ...) stores, with the event's states
\* next to their strings source_str and target_str.
event_attrs(e) ==
    [source |-> e.source, target |-> e.target, swap_index |-> e.swap_index,
     source_str |-> comma_str(e.source), target_str |-> comma_str(e.target),
     label |-> event_label(e),
     source_inversions |-> inversions(e.source),
     target_inversions |-> inversions(e.target)]

\* G = nx.DiGraph() and "for e in events: G.add_node(e["id"], ...)": a later
\* add_node of the same id overwrites the attributes.
event_graph(es) ==
    LET g == add_nodes_from(EmptyCausal, [j \in 1..Len(es) |-> es[j].id])
    IN  [g EXCEPT !.attrs =
            [id \in Range(g.nodes) |->
                LET js == {j \in 1..Len(es) : es[j].id = id}
                IN  event_attrs(es[CHOOSE j \in js : \A i \in js : i <= j])]]

\* "for e1 in incoming: for e2 in outgoing: G.add_edge(e1, e2)"
pairs(incoming, outgoing) ==
    [r \in 1..(Len(incoming) * Len(outgoing)) |->
        <<incoming[((r - 1) \div Len(outgoing)) + 1],
          outgoing[((r - 1) % Len(outgoing)) + 1]>>]

\* Mutation: only a later event is linked to an earlier one.
causal_calls_forward_only(sts, ins, outs) ==
    flatten([i \in 1..Len(sts) |->
                LET incoming == dict_get(ins, sts[i])
                    outgoing == dict_get(outs, sts[i])
                IN  IF incoming = <<>> \/ outgoing = <<>> THEN <<>>
                    ELSE SelectSeq(pairs(incoming, outgoing), LAMBDA c : c[1] < c[2])])

\* The add_edge calls of "for intermediate_state in states".
causal_calls(sts, ins, outs) ==
    flatten([i \in 1..Len(sts) |->
                LET incoming == dict_get(ins, sts[i])
                    outgoing == dict_get(outs, sts[i])
                IN  IF incoming = <<>> \/ outgoing = <<>> THEN <<>>
                    ELSE pairs(incoming, outgoing)])

\* build_causal_graph(states): the locals at the return, and the graph.
build_causal_graph(sts) ==
    LET es == enumerate_events(sts)
        outs == index_by_source(es)
        ins == index_by_target(es)
    IN  [events |-> es,
         out_events_from_state |-> outs,
         in_events_to_state |-> ins,
         next_event_id |-> IF es = <<>> THEN 0 ELSE es[Len(es)].id + 1,
         G |-> add_edges_from(event_graph(es), causal_calls(sts, ins, outs))]

\* main(): G = build_causal_graph(states)
BuildCausal ==
    /\ pc = "events"
    /\ LET r == build_causal_graph(states)
       IN  /\ events' = r.events
           /\ out_events_from_state' = r.out_events_from_state
           /\ in_events_to_state' = r.in_events_to_state
           /\ next_event_id' = r.next_event_id
           /\ CG' = r.G
    /\ pc' = "causal_built"
    /\ UNCHANGED <<input_vars, states, G, stats, prev, run_vars, walk_vars>>

\* causalWithDuplicates.main(): num_events, num_causal_edges, and the
\* nx.write_graphml that follows.
CausalSummary ==
    /\ pc = "causal_built"
    /\ stats' = [NoStats EXCEPT !.computed = TRUE,
                                !.nodes = Len(CG.nodes),
                                !.edges = Cardinality(CG.edges)]
    /\ graphml' = TRUE
    /\ pc' = "done"
    /\ UNCHANGED <<input_vars, states, G, causal_vars, prev, argv, pos, walk_vars>>

\* ------------------------------------------------------------- layout
\* A coordinate is a multiple of 0.5 and is held as twice its value: x = -0.5
\* is -1, y = 1.5 is 3.
int_greater(a, b) == a > b

\* levels after "for node in G.nodes(): levels.setdefault(key[node],
\* []).append(node)": the keys in the order they were first set, and the list
\* of one key.
level_keys(nodes, key) == first_new([i \in 1..Len(nodes) |-> key[nodes[i]]], {})

level_row(nodes, key, k) == SelectSeq(nodes, LAMBDA u : key[u] = k)

\* Mutation: the levels are taken from the lowest key up.
keys_ascending(ks) == SortSeq(ks, int_less)

\* sorted(levels.items(), key=lambda kv: -kv[0]) and
\* sorted(levels.keys(), reverse=True): the keys from the highest down.
keys_descending(ks) == SortSeq(ks, int_greater)

\* Mutation: (m-1)//2 for (m-1)/2.
place_row_floor(row, y) ==
    [i \in 1..Len(row) |-> <<row[i], <<2 * (i - 1) - 2 * ((Len(row) - 1) \div 2), y>> >>]

\* xs = [i - (m-1)/2 for i in range(m)] and the assignments
\* "for x, node in zip(xs, row): pos[node] = (x, y)", in order.
place_row(row, y) ==
    [i \in 1..Len(row) |-> <<row[i], <<2 * (i - 1) - (Len(row) - 1), y>> >>]

\* The dict after the assignments d[a[1]] = a[2], in order.
dict_of(asg) ==
    [u \in {asg[j][1] : j \in 1..Len(asg)} |->
        LET js == {j \in 1..Len(asg) : asg[j][1] = u}
        IN  asg[CHOOSE j \in js : \A i \in js : i <= j][2]]

\* row.sort() on a list of tuples
node_less(a, b) == tuple_less(a.val, b.val)

sort_row(row) == SortSeq(row, node_less)

\* row.sort(key=lambda n: G.nodes[n].get("label", str(n))): list.sort is
\* stable, equal labels keep their order.
sort_row_by_label(row, attrs) ==
    LET idx == SortSeq([i \in 1..Len(row) |-> i],
                       LAMBDA a, b :
                           \/ str_less(attrs[row[a]].label, attrs[row[b]].label)
                           \/ attrs[row[a]].label = attrs[row[b]].label /\ a < b)
    IN  [i \in 1..Len(row) |-> row[idx[i]]]

\* layered_layout_by_inversions(G) of bubble.py: y = -yi, the rows in the
\* order of G.nodes().
layered_layout_by_inversions(g) ==
    LET key == [u \in node_set(g) |-> inversions(u.val)]
        ks == keys_descending(level_keys(g.nodes, key))
    IN  dict_of(flatten([yi \in 1..Len(ks) |->
                    place_row(level_row(g.nodes, key, ks[yi]), -2 * (yi - 1))]))

\* layered_layout_all_start(G) of bubble2.py: SUPER at (0, 1.5), y = 1 - yi.
layered_layout_all_start(g) ==
    LET real == SelectSeq(g.nodes, LAMBDA u : u # SUPER)
        key == [u \in Range(real) |-> inversions(u.val)]
        ks == keys_descending(level_keys(real, key))
    IN  dict_of((IF SUPER \in node_set(g) THEN << <<SUPER, <<0, 3>> >> >> ELSE <<>>)
                \o flatten([yi \in 1..Len(ks) |->
                       place_row(level_row(real, key, ks[yi]), 2 - 2 * (yi - 1))]))

\* layered_layout_by_inversions(G) of bubbleWithDuplicates.py: every row is
\* sorted, the position is (x, -y).
layered_layout_by_inversions_dup(g) ==
    LET key == [u \in node_set(g) |-> inversions(u.val)]
        ks == keys_descending(level_keys(g.nodes, key))
    IN  dict_of(flatten([y \in 1..Len(ks) |->
                    place_row(sort_row(level_row(g.nodes, key, ks[y])), -2 * (y - 1))]))

\* layered_layout_by_source_inversions(G) of causalWithDuplicates.py
layered_layout_by_source_inversions(g) ==
    LET key == [u \in node_set(g) |-> g.attrs[u].source_inversions]
        ks == keys_descending(level_keys(g.nodes, key))
    IN  dict_of(flatten([y \in 1..Len(ks) |->
                    place_row(sort_row_by_label(level_row(g.nodes, key, ks[y]), g.attrs),
                              -2 * (y - 1))]))

\* main(): "if args.png:" computes the layout for the drawing.  args.png is
\* read here and nowhere else: a run without --png ends before this step.
Layout ==
    /\ pc = "done"
    /\ pos' = (CASE prog = "bubble" -> layered_layout_by_inversions(G)
                 [] prog = "bubble2" -> layered_layout_all_start(G)
                 [] prog = "bubbleWithDuplicates" -> layered_layout_by_inversions_dup(G)
                 [] prog = "causalWithDuplicates" -> layered_layout_by_source_inversions(CG))
    /\ pc' = "drawn"
    /\ UNCHANGED <<input_vars, states, G, stats, causal_vars, prev, argv, graphml, walk_vars>>

Next ==
    \/ Enumerate
    \/ BuildMultiway
    \/ AddSuperSource
    \/ Stats
    \/ BuildCausal
    \/ CausalSummary

\* A run without --png.
Spec == Init /\ [][Next]_vars

\* -------------------------------------------- the drawing specification
\* A run with --png, which goes on to the layout.  After the parse a run
\* depends on the typed list through the enumerator alone, and the enumerator
\* on the multiset alone (it sorts the set of all arrangements): every
\* multiset is typed once here, in ascending order.
InitCanon ==
    /\ prog \in Progs
    /\ mode \in (IF prog \in {"bubble", "bubble2"} THEN {"n", "values"} ELSE {"values"})
    /\ n \in (IF mode = "n" THEN 0..MaxN ELSE {0})
    /\ values \in (IF mode = "values"
                   THEN {v \in parsed_values(prog) :
                            \A i \in 1..(Len(v) - 1) : v[i] <= v[i + 1]}
                   ELSE {<<>>})
    /\ no_super \in (IF prog = "bubble2" THEN BOOLEAN ELSE {FALSE})
    /\ pc = "start"
    /\ states = <<>>
    /\ G = EmptyGraph
    /\ stats = NoStats
    /\ events = <<>>
    /\ out_events_from_state = EmptyDict
    /\ in_events_to_state = EmptyDict
    /\ next_event_id = 0
    /\ CG = EmptyCausal
    /\ prev = NoPrev
    /\ argv = (IF mode = "values" THEN comma_str(values) ELSE <<>>)
    /\ graphml = FALSE
    /\ pos = EmptyDict
    /\ cur = <<>>
    /\ steps = 0
    /\ sweep_found = FALSE

NextCanon ==
    \/ Enumerate
    \/ BuildMultiway
    \/ AddSuperSource
    \/ Stats
    \/ BuildCausal
    \/ CausalSummary
    \/ Layout

SpecCanon == InitCanon /\ [][NextCanon]_vars

\* ------------------------------------------- the ordering specification
\* build_causal_graph is called on the enumerator's list and then again on a
\* reordering of the same list; prev keeps what the first call returned, its
\* events named by (source, target, swap_index) in place of their ids.
event_key(id) == <<CG.attrs[id].source, CG.attrs[id].target, CG.attrs[id].swap_index>>

event_keys == {event_key(id) : id \in node_set(CG)}

causal_edge_keys == {<<event_key(c[1]), event_key(c[2])>> : c \in CG.edges}

\* The reorderings of a list.
Orderings(sts) ==
    {[i \in 1..Len(sts) |-> sts[ip[i]]] : ip \in Range(index_permutations(1..Len(sts)))}

\* One value list per multiset (the non-descending one) whose state list is
\* short enough to be reordered in every way.
OrderInputs ==
    {v \in ValueLists(0) :
        /\ \A i \in 1..(Len(v) - 1) : v[i] <= v[i + 1]
        /\ Cardinality(Range(permutations(v))) <= MaxOrdStates}

InitOrder ==
    /\ prog = "causalWithDuplicates"
    /\ mode = "values"
    /\ n = 0
    /\ values \in OrderInputs
    /\ no_super = FALSE
    /\ pc = "start"
    /\ states = <<>>
    /\ G = EmptyGraph
    /\ stats = NoStats
    /\ events = <<>>
    /\ out_events_from_state = EmptyDict
    /\ in_events_to_state = EmptyDict
    /\ next_event_id = 0
    /\ CG = EmptyCausal
    /\ prev = NoPrev
    /\ argv = comma_str(values)
    /\ graphml = FALSE
    /\ pos = EmptyDict
    /\ cur = <<>>
    /\ steps = 0
    /\ sweep_found = FALSE

\* The caller passes the same states in another order.
Reorder ==
    /\ pc = "causal_built"
    /\ ~prev.set
    /\ prev' = [set |-> TRUE, events |-> event_keys, edges |-> causal_edge_keys]
    /\ states' \in Orderings(states)
    /\ pc' = "events"
    /\ UNCHANGED <<input_vars, G, stats, causal_vars, run_vars, walk_vars>>

NextOrder ==
    \/ Enumerate
    \/ BuildCausal
    \/ Reorder

SpecOrder == InitOrder /\ [][NextOrder]_vars

\* -------------------------------------------- the parsing specification
\* The run starts at the --values string as typed, before main() parses it.
\* The characters a string is made of: two digits, the comma, the blank and
\* a letter.
ArgChars == {"1", "2", ",", " ", "x"}

ArgStrings == UNION {[1..len -> ArgChars] : len \in 0..MaxArgLen}

\* The result of a parse that went through, and of one that raised.
Parsed(vs) == [ok |-> TRUE, values |-> vs]

Raised == [ok |-> FALSE, values |-> <<>>]

\* tuple(int(x.strip()) for x in args.values.split(",")) of bubble.py and
\* bubble2.py: int() raises ValueError at the first token it does not accept.
parse_inline(s) ==
    LET toks == split(s)
    IN  IF \A i \in 1..Len(toks) : int_accepts(toks[i])
        THEN Parsed([i \in 1..Len(toks) |-> int(toks[i])])
        ELSE Raised

\* Mutation: a token int() does not accept is skipped.
parse_values_lenient(s) ==
    LET toks == SelectSeq(split(s), LAMBDA x : int_accepts(x))
    IN  Parsed([i \in 1..Len(toks) |-> int(toks[i])])

\* parse_values(s) of bubbleWithDuplicates.py and causalWithDuplicates.py:
\* the tokens that strip to "" are left out; a ValueError is caught and ends
\* the process (sys.exit(2)).
parse_values(s) ==
    LET toks == SelectSeq(split(s), LAMBDA x : strip(x) # <<>>)
    IN  IF \A i \in 1..Len(toks) : int_accepts(toks[i])
        THEN Parsed([i \in 1..Len(toks) |-> int(toks[i])])
        ELSE Raised

\* main(): the --values string is parsed.  parse_values exits with status 2;
\* the ValueError of the inline parse is caught nowhere and ends the process
\* with a traceback.
ParseValues ==
    /\ pc = "parse"
    /\ LET inline == prog \in {"bubble", "bubble2"}
           r == IF inline THEN parse_inline(argv) ELSE parse_values(argv)
       IN  /\ values' = r.values
           /\ pc' = (IF r.ok THEN "start" ELSE IF inline THEN "ValueError" ELSE "exit_2")
    /\ UNCHANGED <<prog, mode, n, no_super, states, G, stats, causal_vars, prev,
                   run_vars, walk_vars>>

InitParse ==
    /\ prog \in Progs
    /\ mode = "values"
    /\ n = 0
    /\ values = <<>>
    /\ no_super \in (IF prog = "bubble2" THEN BOOLEAN ELSE {FALSE})
    /\ pc = "parse"
    /\ states = <<>>
    /\ G = EmptyGraph
    /\ stats = NoStats
    /\ events = <<>>
    /\ out_events_from_state = EmptyDict
    /\ in_events_to_state = EmptyDict
    /\ next_event_id = 0
    /\ CG = EmptyCausal
    /\ prev = NoPrev
    /\ argv \in ArgStrings
    /\ graphml = FALSE
    /\ pos = EmptyDict
    /\ cur = <<>>
    /\ steps = 0
    /\ sweep_found = FALSE

NextParse ==
    \/ ParseValues
    \/ Enumerate
    \/ BuildMultiway
    \/ AddSuperSource
    \/ Stats
    \/ BuildCausal
    \/ CausalSummary
    \/ Layout

SpecParse == InitParse /\ [][NextParse]_vars

\* ---------------------------------------------- the sweep specification
\* causalWithDuplicates.py is run on one --values list after the other, over
\* every list of the bounds, shorter lists first; a run starts from nothing
\* the run before left.  sweep_found tells whether some run on a list with a
\* repeated value built two events of the same source and target.
has_repeat(v) == \E i, j \in 1..Len(v) : i # j /\ v[i] = v[j]

shares_pair(es) ==
    \E i, j \in 1..Len(es) :
        i # j /\ es[i].source = es[j].source /\ es[i].target = es[j].target

last_list == [i \in 1..MaxLen |-> MaxVal]

\* The list after v: the last value below MaxVal is raised and the values
\* behind it start over at 1; past the last list of a length, the first of
\* the next length.
next_list(v) ==
    LET low == {i \in 1..Len(v) : v[i] < MaxVal}
    IN  IF low = {} THEN [i \in 1..(Len(v) + 1) |-> 1]
        ELSE LET k == CHOOSE i \in low : \A j \in low : j <= i
             IN  [i \in 1..Len(v) |-> IF i < k THEN v[i] ELSE IF i = k THEN v[i] + 1 ELSE 1]

InitSweep ==
    /\ prog = "causalWithDuplicates"
    /\ mode = "values"
    /\ n = 0
    /\ values = <<>>
    /\ no_super = FALSE
    /\ pc = "start"
    /\ states = <<>>
    /\ G = EmptyGraph
    /\ stats = NoStats
    /\ events = <<>>
    /\ out_events_from_state = EmptyDict
    /\ in_events_to_state = EmptyDict
    /\ next_event_id = 0
    /\ CG = EmptyCausal
    /\ prev = NoPrev
    /\ argv = comma_str(values)
    /\ graphml = FALSE
    /\ pos = EmptyDict
    /\ cur = <<>>
    /\ steps = 0
    /\ sweep_found = FALSE

\* The run on values is over; the next list is run, or the sweep ends.
NextInput ==
    /\ pc = "causal_built"
    /\ sweep_found' = (sweep_found \/ (has_repeat(values) /\ shares_pair(events)))
    /\ IF values = last_list
       THEN /\ pc' = "swept"
            /\ UNCHANGED <<values, argv, states, causal_vars>>
       ELSE /\ pc' = "start"
            /\ values' = next_list(values)
            /\ argv' = comma_str(values')
            /\ states' = <<>>
            /\ events' = <<>>
            /\ out_events_from_state' = EmptyDict
            /\ in_events_to_state' = EmptyDict
            /\ next_event_id' = 0
            /\ CG' = EmptyCausal
    /\ UNCHANGED <<prog, mode, n, no_super, G, stats, prev, graphml, pos, cur, steps>>

NextSweep ==
    \/ Enumerate
    \/ BuildCausal
    \/ NextInput

SpecSweep == InitSweep /\ [][NextSweep]_vars

\* ----------------------------------------------- the walk specification
\* A walk along the transitions: it starts at an arbitrary state p, kept in
\* values, and goes from the state it is at to any of the successors
\* bubble_neighbors yields for it, as long as there is one.
InitWalk ==
    /\ prog = "bubble"
    /\ mode = "values"
    /\ n = 0
    /\ values \in ValueLists(0)
    /\ no_super = FALSE
    /\ pc = "walk"
    /\ states = <<>>
    /\ G = EmptyGraph
    /\ stats = NoStats
    /\ events = <<>>
    /\ out_events_from_state = EmptyDict
    /\ in_events_to_state = EmptyDict
    /\ next_event_id = 0
    /\ CG = EmptyCausal
    /\ prev = NoPrev
    /\ argv = comma_str(values)
    /\ graphml = FALSE
    /\ pos = EmptyDict
    /\ cur = values
    /\ steps = 0
    /\ sweep_found = FALSE

\* One transition, any of those that apply.  The count stops at the square
\* of the length, which no walk of the code's transitions comes near.
Step ==
    /\ pc = "walk"
    /\ steps < Len(values) * Len(values)
    /\ \E j \in 1..Len(bubble_neighbors(cur)) : cur' = bubble_neighbors(cur)[j]
    /\ steps' = steps + 1
    /\ UNCHANGED <<input_vars, pc, states, G, stats, causal_vars, prev, run_vars, sweep_found>>

NextWalk == Step

SpecWalk == InitWalk /\ [][NextWalk]_vars

\* ------------------------------------------------------------- claims
\* The multiway graph is complete and no super-source is attached yet.
Built == pc = "built"

real_nodes(g) == {u \in node_set(g) : u.kind = "tuple"}

real_edges(g) == {e \in g.edges : e[1].kind = "tuple" /\ e[2].kind = "tuple"}

state_set == Range(states)

\* q is p with the adjacent positions i and i+1 (1-based) exchanged.
IsAdjacentSwap(p, q, i) ==
    /\ Len(q) = Len(p)
    /\ q[i] = p[i + 1]
    /\ q[i + 1] = p[i]
    /\ \A j \in 1..Len(p) : j \notin {i, i + 1} => q[j] = p[j]

\* The (1-based) places of the strictly decreasing adjacent pairs of t.
Descents(t) == {i \in 1..(Len(t) - 1) : t[i] > t[i + 1]}

NonDescending(t) == \A i \in 1..(Len(t) - 1) : t[i] <= t[i + 1]

\* C1: every successor q that bubble_neighbors yields for an enumerated state p
\* has exactly one inversion less than p, every edge of the graph under
\* construction goes from a state to one with one inversion less, and the
\* graph returned by multiway_bubble / build_multiway has no directed cycle.
C1_EdgesRemoveOneInversion ==
    /\ \A p \in state_set : \A q \in Range(bubble_neighbors(p)) :
           inversions(q) = inversions(p) - 1
    /\ \A e \in real_edges(G) : inversions(e[2].val) = inversions(e[1].val) - 1
    /\ Built => \A u \in node_set(G) : u \notin descendants(G, u)
    /\ (pc = "done" /\ prog # "causalWithDuplicates") => stats.is_dag

C1_Witness ==
    /\ Built
    /\ \E e \in G.edges : inversions(e[1].val) = 3 /\ inversions(e[2].val) = 2

\* C2: for a non-empty input, from every node of the multiway graph the states
\* reachable by zero or more bubble transitions include exactly one state
\* with zero inversions.
C2_OneSortedStateReachable ==
    (Built /\ (mode = "n" => n >= 1) /\ (mode = "values" => Len(values) >= 1)) =>
        \A u \in node_set(G) :
            Cardinality({v \in closure(G, {u}) : inversions(v.val) = 0}) = 1

C2_Witness ==
    /\ Built
    /\ mode = "values"
    /\ \E i, j \in 1..Len(values) : i # j /\ values[i] = values[j]
    /\ \E u \in node_set(G) :
           /\ inversions(u.val) = 2
           /\ \E v \in descendants(G, u) : inversions(v.val) = 0

\* C3: from add_nodes_from on, the node set of the multiway graph is exactly
\* the enumerated state set, each state once: add_edge never adds a node, and
\* a state without incident edge is a node all the same.
C3_NodesAreTheEnumeratedStates ==
    (prog # "causalWithDuplicates" /\ pc \in {"built", "augmented", "done"}) =>
        /\ real_nodes(G) = {St(s) : s \in state_set}
        /\ Cardinality(real_nodes(G)) = Len(states)
        /\ Len(G.nodes) = Cardinality(node_set(G))
        /\ \A e \in G.edges : e[2] \in {St(s) : s \in state_set}

C3_Witness ==
    /\ Built
    /\ Len(states) = 12
    /\ Len(G.nodes) = 12
    /\ Cardinality(G.edges) >= 12

\* C4: the multiway graph has the edge (p, q) exactly when q is p with one
\* strictly decreasing adjacent pair exchanged; a state has one successor per
\* strictly decreasing adjacent pair, so equal neighbours give no transition,
\* and no edge is a self-loop.
C4_EdgesAreStrictAdjacentSwaps ==
    Built =>
        /\ \A e \in G.edges :
               /\ e[1] # e[2]
               /\ \E i \in 1..(Len(e[1].val) - 1) :
                      /\ e[1].val[i] > e[1].val[i + 1]
                      /\ IsAdjacentSwap(e[1].val, e[2].val, i)
        /\ \A p \in state_set :
               /\ \A i \in 1..(Len(p) - 1) :
                      p[i] > p[i + 1] =>
                          \E e \in G.edges : e[1] = St(p) /\ IsAdjacentSwap(p, e[2].val, i)
               /\ Len(bubble_neighbors(p)) = Cardinality(Descents(p))
               /\ out_degree(G, St(p)) = Cardinality(Descents(p))

C4_Witness ==
    /\ Built
    /\ \E p \in state_set : \E i, j \in 1..(Len(p) - 1) :
           /\ p[i] = p[i + 1]
           /\ p[j] > p[j + 1]
           /\ \E e \in G.edges : e[1] = St(p)

\* C5: without the super-source a node has out-degree 0 exactly when it is the
\* non-descending arrangement, there is exactly one such node, and the summary
\* reports the sorted state as present and as the only sink.
C5_SortedStateIsTheUniqueSink ==
    /\ Built =>
           /\ \A u \in node_set(G) : (out_degree(G, u) = 0) <=> NonDescending(u.val)
           /\ Cardinality({u \in node_set(G) : out_degree(G, u) = 0}) = 1
           /\ St(sorted_state_of) \in node_set(G)
           /\ out_degree(G, St(sorted_state_of)) = 0
    /\ (pc = "done" /\ prog # "causalWithDuplicates") =>
           /\ stats.sinks = <<St(sorted_state_of)>>
           /\ NonDescending(stats.sorted_state)
           /\ stats.sorted_present
           /\ stats.sorted_is_sink

C5_Witness ==
    /\ pc = "done"
    /\ stats.sorted_is_sink
    /\ stats.nodes >= 6
    /\ stats.edges >= 6

Fact(m) == LET RECURSIVE f(_)
               f(i) == IF i <= 1 THEN 1 ELSE i * f(i - 1)
           IN  f(m)

Count(t, v) == Cardinality({i \in 1..Len(t) : t[i] = v})

\* The distinct arrangements of the multiset of vs.
Arrangements(vs) ==
    {t \in [1..Len(vs) -> Range(vs)] : \A v \in Range(vs) : Count(t, v) = Count(vs, v)}

RECURSIVE MultiplicityProduct(_, _)
MultiplicityProduct(vs, S) ==
    IF S = {} THEN 1
    ELSE LET v == CHOOSE v \in S : TRUE
         IN  Fact(Count(vs, v)) * MultiplicityProduct(vs, S \ {v})

StrictlyAscending(s) == \A i \in 1..(Len(s) - 1) : tuple_less(s[i], s[i + 1])

\* C6: states_from_values / unique_permutations list every distinct
\* arrangement of the value multiset once, in ascending lexicographic order,
\* so that their number is len! divided by the factorials of the
\* multiplicities; states_from_n lists the n! permutations of 1..n without
\* repeats.  The list is the only ascending listing of its set, so a second
\* call returns the same sequence.
C6_EnumerationIsExactAndOrdered ==
    pc \in {"add_nodes", "events"} =>
        /\ mode = "values" =>
               /\ StrictlyAscending(states)
               /\ state_set = Arrangements(values)
               /\ Len(states) * MultiplicityProduct(values, Range(values))
                      = Fact(Len(values))
        /\ mode = "n" =>
               /\ state_set = Arrangements(range1(n))
               /\ Len(states) = Fact(n)
               /\ Cardinality(state_set) = Len(states)
               /\ StrictlyAscending(states)
        /\ values = <<1, 1>> => states = << <<1, 1>> >> /\ bubble_neighbors(states[1]) = <<>>

C6_Witness ==
    /\ pc = "add_nodes"
    /\ values = <<2, 1, 2, 1>>
    /\ Len(states) = 6
    /\ states[1] = <<1, 1, 2, 2>>

\* The (state, 0-based index) pairs at which a swap applies.
SwapSites == {pi \in state_set \X (0..(MaxLen + MaxN)) :
                  /\ pi[2] + 2 <= Len(pi[1])
                  /\ pi[1][pi[2] + 1] > pi[1][pi[2] + 2]}

\* build_causal_graph has returned.
CausalBuilt == prog = "causalWithDuplicates" /\ pc \in {"causal_built", "done"}

\* C7: build_causal_graph creates exactly one event for every enumerated
\* state p and index i with p[i] > p[i+1], with source p, target p with i and
\* i+1 exchanged and swap_index i; the ids are 0..k-1, pairwise distinct, and
\* are exactly the nodes of the causal graph.  Values 2,1 give one event,
\* values 3,2,1 the six events of the specification.
C7_OneEventPerSwapSite ==
    CausalBuilt =>
        /\ \A e \in Range(events) :
               /\ <<e.source, e.swap_index>> \in SwapSites
               /\ IsAdjacentSwap(e.source, e.target, e.swap_index + 1)
        /\ \A site \in SwapSites :
               Cardinality({j \in 1..Len(events) :
                   events[j].source = site[1] /\ events[j].swap_index = site[2]}) = 1
        /\ \A j \in 1..Len(events) : events[j].id = j - 1
        /\ next_event_id = Len(events)
        /\ node_set(CG) = {e.id : e \in Range(events)}
        /\ Len(CG.nodes) = Len(events)
        /\ values = <<2, 1>> => Len(events) = 1
        /\ values = <<3, 2, 1>> =>
               {<<e.source, e.target, e.swap_index>> : e \in Range(events)} =
                   {<< <<3, 2, 1>>, <<2, 3, 1>>, 0 >>, << <<3, 2, 1>>, <<3, 1, 2>>, 1 >>,
                    << <<2, 3, 1>>, <<2, 1, 3>>, 1 >>, << <<3, 1, 2>>, <<1, 3, 2>>, 0 >>,
                    << <<2, 1, 3>>, <<1, 2, 3>>, 0 >>, << <<1, 3, 2>>, <<1, 2, 3>>, 1 >>}

C7_Witness ==
    /\ prog = "causalWithDuplicates"
    /\ pc = "done"
    /\ values = <<3, 2, 1>>
    /\ Len(events) = 6
    /\ Len(CG.nodes) = 6

event_of(id) == CHOOSE e \in Range(events) : e.id = id

\* C8: in the causal graph returned there is an edge e1 -> e2 exactly when
\* target(e1) = source(e2); a state nothing produces or nothing consumes
\* contributes no edge.
C8_CausalEdgesJoinChainedEvents ==
    CausalBuilt =>
        /\ \A e1, e2 \in Range(events) :
               (<<e1.id, e2.id>> \in CG.edges) <=> (e1.target = e2.source)
        /\ CG.edges \subseteq node_set(CG) \X node_set(CG)
        /\ node_set(CG) = {e.id : e \in Range(events)}

C8_Witness ==
    /\ prog = "causalWithDuplicates"
    /\ pc = "done"
    /\ \E s \in state_set :
           /\ Cardinality({e \in Range(events) : e.target = s}) = 2
           /\ Cardinality({e \in Range(events) : e.source = s}) = 1
           /\ Cardinality({c \in CG.edges : event_of(c[1]).target = s}) = 2
    /\ \E s \in state_set :
           /\ Cardinality({e \in Range(events) : e.target = s}) = 1
           /\ Cardinality({e \in Range(events) : e.source = s}) = 2
           /\ Cardinality({c \in CG.edges : event_of(c[1]).target = s}) = 2
    /\ \E s \in state_set : \A e \in Range(events) : e.target # s

\* C9 (under SpecOrder): build_causal_graph on a reordering of the state list
\* returns the same events, named by (source, target, swap_index), and the
\* same causal edges between them as on the enumerator's list; only the ids
\* differ.  Any two orderings agree with the enumerator's, hence with each other.
C9_CausalGraphIgnoresStateOrder ==
    (pc = "causal_built" /\ prev.set) =>
        /\ event_keys = prev.events
        /\ causal_edge_keys = prev.edges
        /\ Len(CG.nodes) = Cardinality(prev.events)
        /\ Cardinality(CG.edges) = Cardinality(prev.edges)

C9_Witness ==
    /\ pc = "causal_built"
    /\ prev.set
    /\ Len(states) = 6
    /\ \E i \in 1..(Len(states) - 1) : tuple_less(states[i + 1], states[i])
    /\ Cardinality(prev.edges) >= 4
    /\ \E e \in Range(events) :
           event_key(e.id) \in prev.events /\ e.id = 0 /\ inversions(e.source) = 3

\* C10: add_super_source adds the one node SUPER, which no state equals, and
\* one edge SUPER -> s for every enumerated state s; no edge enters SUPER, the
\* edges between states are those of before the call, and the graph stays
\* acyclic.
C10_SuperSourceOnlyAddsItsEdges ==
    [][(pc = "built" /\ pc' = "augmented") =>
          /\ SUPER \notin node_set(G)
          /\ G'.nodes = Append(G.nodes, SUPER)
          /\ G'.edges = G.edges \cup {<<SUPER, St(s)>> : s \in state_set}
          /\ Cardinality(G'.edges) = Cardinality(G.edges) + Len(states)
          /\ \A e \in G'.edges : e[2] # SUPER
          /\ real_edges(G') = G.edges
          /\ \A u \in node_set(G') : u \notin descendants(G', u)]_vars

C10_Witness ==
    /\ pc = "augmented"
    /\ Len(states) = 6
    /\ Cardinality({e \in G.edges : e[1] = SUPER}) = 6
    /\ Cardinality(real_edges(G)) >= 6

\* The layout of --png has been computed.
Drawn == pc = "drawn"

\* The graph the run lays out, and its nodes and edges.
drawn_nodes == IF prog = "causalWithDuplicates" THEN node_set(CG) ELSE node_set(G)

drawn_edges == IF prog = "causalWithDuplicates" THEN CG.edges ELSE G.edges

\* The 0-based index of the layer of a positioned node, counted from the
\* top: the number of different heights above it.
layer_index(u) == Cardinality({pos[v][2] : v \in {w \in DOMAIN pos : pos[w][2] > pos[u][2]}})

\* C11: each layout function positions every node of its graph, and for every
\* edge (u, v) of that graph (bubble transition, causal edge, super-source
\* edge) the layer of v is not above the layer of u: y(v) <= y(u) and
\* layer index of v >= layer index of u; the super-source, when present,
\* lies strictly above every state.
C11_NoEdgePointsUpward ==
    Drawn =>
        /\ DOMAIN pos = drawn_nodes
        /\ \A e \in drawn_edges :
               /\ pos[e[2]][2] <= pos[e[1]][2]
               /\ layer_index(e[2]) >= layer_index(e[1])
        /\ (prog # "causalWithDuplicates" /\ SUPER \in node_set(G)) =>
               \A u \in real_nodes(G) : pos[SUPER][2] > pos[u][2]

C11_Witness ==
    /\ Drawn
    /\ prog = "bubble2"
    /\ SUPER \in DOMAIN pos
    /\ Len(states) = 12
    /\ \E e \in real_edges(G) : layer_index(e[1]) = 1 /\ layer_index(e[2]) = 2
    /\ \E e \in G.edges : e[1] = SUPER /\ layer_index(e[2]) = 5

\* C12 as stated: some input multiset with a repeated value makes
\* build_causal_graph create two distinct events of equal source and equal
\* target.  Under SpecSweep: when every list of the bounds has been run, one
\* of them has.
C12_SomeInputSharesAPair == pc = "swept" => sweep_found

\* C12 as amended (under SpecSweep): events may share their target state or
\* their source state, never both: for every input multiset, two events of
\* build_causal_graph with equal source and equal target are one event, and
\* no run of the sweep has found a shared pair.
C12_EventsShareTargetsNotPairs ==
    /\ pc = "causal_built" =>
           \A e1, e2 \in Range(events) :
               (e1.source = e2.source /\ e1.target = e2.target) => e1.id = e2.id
    /\ ~sweep_found

C12_Witness ==
    /\ pc = "causal_built"
    /\ has_repeat(values)
    /\ \E e1, e2 \in Range(events) :
           e1.id # e2.id /\ e1.target = e2.target /\ e1.source # e2.source
    /\ \E e1, e2 \in Range(events) :
           e1.id # e2.id /\ e1.source = e2.source /\ e1.target # e2.target

\* C13: when bubble2 has attached the super-source, the summary it reports
\* counts the multiway graph over the real states only: the node count is the
\* number of enumerated states, the edge count the number of bubble
\* transitions, the source count the number of states no bubble transition
\* enters.
C13_SummaryCountsRealStatesOnly ==
    (prog = "bubble2" /\ ~no_super /\ pc = "done") =>
        /\ stats.nodes = Len(states)
        /\ stats.edges = Cardinality(real_edges(G))
        /\ Len(stats.sources) =
               Cardinality({u \in real_nodes(G) : \A e \in real_edges(G) : e[2] # u})

\* The tokens of the --values string: the stretches a..b (empty when
\* b = a - 1) without comma that a comma or an end of the string bounds on
\* both sides.
Tokens ==
    {ab \in (1..(Len(argv) + 1)) \X (0..Len(argv)) :
        /\ ab[2] >= ab[1] - 1
        /\ \A i \in ab[1]..ab[2] : argv[i] # ","
        /\ (ab[1] = 1 \/ argv[ab[1] - 1] = ",")
        /\ (ab[2] = Len(argv) \/ argv[ab[2] + 1] = ",")}

\* The characters of a token that are not blanks, in order.
Ink(ab) == SelectSeq(SubSeq(argv, ab[1], ab[2]), LAMBDA c : c # " ")

BlankToken(ab) == Ink(ab) = <<>>

\* A number: digits in one run, blanks only before and after it.
NumericToken(ab) ==
    /\ ~BlankToken(ab)
    /\ \A i \in ab[1]..ab[2] : argv[i] = " " \/ is_digit(argv[i])
    /\ \A i, j \in ab[1]..ab[2] :
           (i < j /\ argv[i] # " " /\ argv[j] # " ") => \A k \in i..j : argv[k] # " "

\* The run has ended in an error and has produced nothing.
RejectedBeforeAnyWork ==
    /\ pc \in {"exit_2", "ValueError"}
    /\ values = <<>>
    /\ states = <<>>
    /\ G = EmptyGraph
    /\ CG = EmptyCausal
    /\ events = <<>>
    /\ ~stats.computed
    /\ ~graphml
    /\ pos = EmptyDict

\* C14 as stated (under SpecParse): a --values string with a token that is
\* not a number is rejected by each of the four programs before any state is
\* enumerated: the run ends in an error with no state set, no graph and no
\* output file.
C14_NonNumericTokenIsRejected ==
    (pc # "parse" /\ \E ab \in Tokens : ~NumericToken(ab)) => RejectedBeforeAnyWork

\* The tokens that are not blank, from left to right.
InkedTokens == SortSeq(
    SelectSeq([i \in 1..(Len(argv) + 1) |->
                  IF \E ab \in Tokens : ab[1] = i /\ ~BlankToken(ab)
                  THEN CHOOSE ab \in Tokens : ab[1] = i ELSE <<0, 0>>],
              LAMBDA ab : ab # <<0, 0>>),
    LAMBDA a, b : a[1] < b[1])

\* C14 as amended (under SpecParse): a token that is neither a number nor
\* blank is rejected by each of the four programs before any work (exit
\* status 2 from parse_values, an uncaught ValueError in bubble.py and
\* bubble2.py); bubble.py and bubble2.py reject a blank token too, while
\* parse_values drops blank tokens and goes on; when the parse goes through,
\* the values are the numbers of the non-blank tokens, in order, none
\* dropped and none replaced.
C14_MalformedTokenIsRejected ==
    pc # "parse" =>
        LET inline == prog \in {"bubble", "bubble2"}
            bad == \/ \E ab \in Tokens : ~NumericToken(ab) /\ ~BlankToken(ab)
                   \/ inline /\ \E ab \in Tokens : BlankToken(ab)
        IN  /\ bad => RejectedBeforeAnyWork
            /\ bad => pc = (IF inline THEN "ValueError" ELSE "exit_2")
            /\ ~bad =>
                   /\ pc \notin {"exit_2", "ValueError"}
                   /\ Len(values) = Len(InkedTokens)
                   /\ \A k \in 1..Len(values) : str(values[k]) = Ink(InkedTokens[k])

C14_Witness ==
    /\ prog = "causalWithDuplicates"
    /\ pc = "exit_2"
    /\ argv = <<"1", ",", "x", "2">>
    /\ RejectedBeforeAnyWork

\* The key a layout groups a node by: the inversion count of the state, or
\* of the source state of the event.
layer_key(u) ==
    IF prog = "causalWithDuplicates" THEN inversions(CG.attrs[u].source)
    ELSE inversions(u.val)

\* The tie-break inside a layer: u comes before v.
row_before(u, v) ==
    IF prog = "causalWithDuplicates" THEN str_less(CG.attrs[u].label, CG.attrs[v].label)
    ELSE tuple_less(u.val, v.val)

\* The positioned nodes at the height of u.
row_of(u) == {v \in DOMAIN pos : pos[v][2] = pos[u][2]}

keyed_nodes == {u \in DOMAIN pos : prog = "causalWithDuplicates" \/ u.kind = "tuple"}

\* C15: in every layout the nodes of one layer (one inversion count) lie at
\* one height, at the x-coordinates i - (m-1)/2 for i = 0..m-1, one node at
\* each, in increasing sequence-value order for the state graphs and in
\* increasing label order for the causal graph; no two nodes of the graph
\* have the same position.
C15_LayersAreCenteredAndOrdered ==
    Drawn =>
        /\ \A u, v \in DOMAIN pos : u # v => pos[u] # pos[v]
        /\ \A u \in DOMAIN pos :
               LET m == Cardinality(row_of(u))
               IN  /\ {pos[v][1] : v \in row_of(u)} = {2 * i - (m - 1) : i \in 0..(m - 1)}
                   /\ \A v \in row_of(u) : u # v => pos[u][1] # pos[v][1]
        /\ \A u \in keyed_nodes : \A v \in keyed_nodes :
               /\ (layer_key(u) = layer_key(v)) <=> (pos[u][2] = pos[v][2])
               /\ (pos[u][2] = pos[v][2] /\ row_before(u, v)) => pos[u][1] < pos[v][1]

C15_Witness ==
    /\ Drawn
    /\ prog = "causalWithDuplicates"
    /\ \E u \in DOMAIN pos :
           /\ Cardinality(row_of(u)) = 4
           /\ pos[u][1] = -3
           /\ \E v \in row_of(u) : pos[v][1] = -1 /\ row_before(u, v)
    /\ \E u \in DOMAIN pos : Cardinality(row_of(u)) = 3 /\ pos[u][1] = 0

\* The number of edges of the longest directed path of an acyclic graph that
\* starts in S.
RECURSIVE path_depth(_, _)
path_depth(g, S) ==
    LET T == {e[2] : e \in {e \in g.edges : e[1] \in S}}
    IN  IF T = {} THEN 0 ELSE 1 + path_depth(g, T)

LongestPath(g) == path_depth(g, node_set(g))

\* C16: the "Max inversions (upper bound on longest path)" that bubble.py
\* reports is at least the number of edges of every directed path of the
\* multiway graph it built, with -n and with --values.
C16_MaxInvBoundsEveryPath ==
    (prog = "bubble" /\ pc = "done") => LongestPath(G) <= stats.max_inv

\* C17 (under SpecWalk): a sequence of bubble transitions from a state p, in
\* values, never has more than inversions(p) steps, and when no transition
\* applies any more it has taken exactly inversions(p) steps, whichever swaps
\* were chosen, and stands at the sorted arrangement of p.
C17_EveryMaximalWalkSortsInInversionsSteps ==
    pc = "walk" =>
        /\ steps <= inversions(values)
        /\ bubble_neighbors(cur) = <<>> =>
               /\ steps = inversions(values)
               /\ NonDescending(cur)
               /\ Len(cur) = Len(values)
               /\ \A v \in Range(values) : Count(cur, v) = Count(values, v)

C17_Witness ==
    /\ pc = "walk"
    /\ values = <<3, 2, 1, 1>>
    /\ steps = 5
    /\ bubble_neighbors(cur) = <<>>
    /\ cur = <<1, 1, 2, 3>>

\* The multiway edge an event stands for.
edge_of(id) == <<St(CG.attrs[id].source), St(CG.attrs[id].target)>>

\* C18: the causal graph is the line graph of the multiway graph that
\* build_multiway builds from the same states: event -> (source, target) maps
\* the causal nodes one-to-one onto the multiway edges, so there are as many
\* events as multiway edges, and e1 -> e2 is a causal edge exactly when the
\* multiway edge of e1 ends where that of e2 starts.
C18_CausalGraphIsTheLineGraph ==
    CausalBuilt =>
        /\ {edge_of(id) : id \in node_set(CG)} = build_multiway(states).edges
        /\ \A a, b \in node_set(CG) : edge_of(a) = edge_of(b) => a = b
        /\ Len(CG.nodes) = Cardinality(build_multiway(states).edges)
        /\ \A a, b \in node_set(CG) :
               (<<a, b>> \in CG.edges) <=> (edge_of(a)[2] = edge_of(b)[1])

C18_Witness ==
    /\ CausalBuilt
    /\ Len(states) = 12
    /\ Len(CG.nodes) = Cardinality(build_multiway(states).edges)
    /\ Len(CG.nodes) >= 12
    /\ \E c \in CG.edges : edge_of(c[1])[2] = edge_of(c[2])[1]
    /\ \E a, b \in node_set(CG) : a # b /\ edge_of(a)[2] = edge_of(b)[2]

NonAscending(t) == \A i \in 1..(Len(t) - 1) : t[i] >= t[i + 1]

\* The nodes no edge enters, and those no edge leaves.
NoEdgeInto(g) == {u \in node_set(g) : \A e \in g.edges : e[2] # u}

NoEdgeFrom(g) == {u \in node_set(g) : \A e \in g.edges : e[1] # u}

\* All input values are equal, or there is at most one.
AllValuesEqual ==
    IF mode = "n" THEN n <= 1 ELSE \A i, j \in 1..Len(values) : values[i] = values[j]

\* C19: in the multiway graph without super-source a node has in-degree 0
\* exactly when it is the non-increasing arrangement of the input, so there is
\* one such node and the reported source count is 1; that node is the sink as
\* well exactly when all input values are equal or there is at most one.
C19_ReverseSortedStateIsTheUniqueSource ==
    /\ Built =>
           /\ \A u \in node_set(G) : (u \in NoEdgeInto(G)) <=> NonAscending(u.val)
           /\ Cardinality(NoEdgeInto(G)) = 1
           /\ (NoEdgeInto(G) \cap NoEdgeFrom(G) # {}) <=> AllValuesEqual
           /\ AllValuesEqual <=> (Len(G.nodes) = 1)
    /\ (pc = "done" /\ prog # "causalWithDuplicates" /\ (prog # "bubble2" \/ no_super)) =>
           /\ Len(stats.sources) = 1
           /\ NonAscending(stats.sources[1].val)
           /\ stats.sources[1] \in real_nodes(G)
           /\ (stats.sources = stats.sinks) <=> AllValuesEqual

C19_Witness ==
    /\ pc = "done"
    /\ prog = "bubbleWithDuplicates"
    /\ values = <<1, 2, 3, 3>>
    /\ stats.sources = <<St(<<3, 3, 2, 1>>)>>
    /\ stats.sinks = <<St(<<1, 2, 3, 3>>)>>
    /\ stats.nodes = 12

====
